---- MODULE Spec2Model ----
(***************************************************************************)
(* Model of the Unstructured Finance Analysis Agent (src/uagent/main.py):  *)
(* module start-up, the POST /analyze handler with its single awaited call *)
(* to the generation provider, and the GET / health check.                 *)
(*                                                                         *)
(* Text is modelled as a sequence of chunks (a chunk stands for a run of   *)
(* characters); JSON text is modelled as a sequence of lexical tokens.     *)
(***************************************************************************)
EXTENDS Integers, Sequences, FiniteSets, TLC

\* ------------------------------------------------------------------ bounds
NumRequests == 2        \* concurrent POST /analyze requests in Spec
MaxLen      == 2        \* longest user string (in chunks) in PromptSpec
MaxTokens   == 5        \* longest exhaustively drawn provider text in JsonSpec

\* --------------------------------------------------------- generic helpers
Range(s) == {s[i] : i \in 1..Len(s)}

SeqsUpTo(S, n) == UNION {[1..k -> S] : k \in 0..n}

\* s occurs in p starting at index i (1-based)
OccursAt(s, p, i) ==
    /\ i >= 1
    /\ i + Len(s) - 1 <= Len(p)
    /\ \A k \in 1..Len(s) : p[i + k - 1] = s[k]

Contains(p, s) == \E i \in 1..(Len(p) + 1) : OccursAt(s, p, i)

\* ------------------------------------------------ request model (l. 24-26)
\* The default of AnalysisRequest.context, as two chunks.
DefaultContext == <<"rural loans and government schemes", " in India">>

\* A JSON body field as the client sent it: absent, null, a number, a string.
Missing  == [k |-> "missing", s |-> <<>>]
Null     == [k |-> "null",    s |-> <<>>]
Num5     == [k |-> "num",     s |-> <<"5">>]
Str(s)   == [k |-> "str",     s |-> s]

\* pydantic's verdict on a field declared `str`: strings pass; null and a
\* missing required field fail; a number passes (coerced to its decimal
\* text) under pydantic 1.x and fails under pydantic 2.x.
StrFieldOk(f, lax) == f.k = "str" \/ (f.k = "num" /\ lax)

\* AnalysisRequest validation: unstructured_text is required, context is
\* optional with a default.
ValidateRequest(body, lax) ==
    /\ StrFieldOk(body.unstructured_text, lax)
    /\ (body.context.k = "missing" \/ StrFieldOk(body.context, lax))

\* Variant: the default also replaces a context supplied empty
\* (`context or DEFAULT`).
AnalysisRequestOrDefault(body) ==
    [unstructured_text |-> body.unstructured_text.s,
     context |-> IF body.context.k = "missing" \/ body.context.s = <<>>
                 THEN DefaultContext
                 ELSE body.context.s]

\* The validated model instance handed to the handler.
AnalysisRequest(body) ==
    [unstructured_text |-> body.unstructured_text.s,
     context |-> IF body.context.k = "missing" THEN DefaultContext
                 ELSE body.context.s]

\* ------------------------------------------------- the prompt (l. 33-76)
SchemaRequired ==
    {"summary", "key_entities", "sentiment", "recommendations", "potential_risks"}

\* json.dumps(JSON_OUTPUT_SCHEMA): one fixed chunk of the prompt.
SchemaDump == "{\"type\": \"object\", \"properties\": {...}, \"required\": [...]}"

Separator == "---"
Indent    == "\n        "

PromptHead ==
    <<Indent, "Analyze the following unstructured text regarding financial matters, specifically in the context of '">>

PromptMiddle ==
    <<"'.", Indent,
      "Your task is to act as an expert financial analyst. Extract key information, identify risks, and provide actionable recommendations.",
      Indent, Indent,
      "Please provide your analysis strictly in the following JSON format:",
      Indent, SchemaDump, "\n", Indent,
      "Here is the text to analyze:", Indent, Separator, Indent>>

PromptTail == <<Indent, Separator, Indent>>

\* Variant: separator markers are stripped from the text before it is
\* interpolated.
BuildPromptSanitised(request) ==
    PromptHead \o request.context \o PromptMiddle
               \o SelectSeq(request.unstructured_text, LAMBDA c : c # Separator)
               \o PromptTail

\* The f-string of lines 65-76: both values are interpolated as they are.
BuildPrompt(request) ==
    PromptHead \o request.context \o PromptMiddle
               \o request.unstructured_text \o PromptTail

\* ------------------------------------------- provider text as JSON tokens
\* Lexical tokens of the text the provider returns.  A string token is a
\* quoted string; "1" is an in-range number, "1e999" a number that is valid
\* JSON but exceeds the double range, "NaN" the constant Python's decoder
\* accepts although it is not JSON.
StrTokens == SchemaRequired \cup {"loan"}

\* Python values: t is the type, s the scalar payload, c the children (the
\* elements of a list, the <<key, value>> items of a dict in insertion order).
NoValue      == [t |-> "none",  s |-> "",  c |-> <<>>]
PyStr(x)     == [t |-> "str",   s |-> x,   c |-> <<>>]
PyInt(x)     == [t |-> "int",   s |-> x,   c |-> <<>>]
PyFloat(x)   == [t |-> "float", s |-> x,   c |-> <<>>]
PyList(xs)   == [t |-> "list",  s |-> "",  c |-> xs]
PyDict(kvs)  == [t |-> "dict",  s |-> "",  c |-> kvs]

\* dict item assignment: an existing key keeps its place and takes the new
\* value, a new key is appended.
DictPut(kvs, k, v) ==
    IF \E i \in 1..Len(kvs) : kvs[i][1] = k
    THEN [i \in 1..Len(kvs) |-> IF kvs[i][1] = k THEN <<k, v>> ELSE kvs[i]]
    ELSE Append(kvs, <<k, v>>)

Ok(v, n)     == [ok |-> TRUE,  val |-> v,       next |-> n, err |-> ""]
Failed(msg)  == [ok |-> FALSE, val |-> NoValue, next |-> 0, err |-> msg]

RECURSIVE ParseValue(_, _), ParseMembers(_, _, _), ParseElements(_, _, _)
RECURSIVE AfterMember(_, _, _), AfterElement(_, _, _)

\* The one element of a singleton set (used to name an intermediate result
\* that is read several times).
The(S) == CHOOSE x \in S : TRUE

\* json.scanner: one value starting at token i.
ParseValue(toks, i) ==
    IF i > Len(toks) THEN Failed("Expecting value")
    ELSE LET tk == toks[i] IN
         CASE tk \in StrTokens -> Ok(PyStr(tk), i + 1)
           [] tk = "1"         -> Ok(PyInt("1"), i + 1)
           [] tk = "1e999"     -> Ok(PyFloat("inf"), i + 1)
           [] tk = "NaN"       -> Ok(PyFloat("nan"), i + 1)
           [] tk = "{"         ->
                IF i + 1 <= Len(toks) /\ toks[i + 1] = "}"
                THEN Ok(PyDict(<<>>), i + 2)
                ELSE ParseMembers(toks, i + 1, <<>>)
           [] tk = "["         ->
                IF i + 1 <= Len(toks) /\ toks[i + 1] = "]"
                THEN Ok(PyList(<<>>), i + 2)
                ELSE ParseElements(toks, i + 1, <<>>)
           [] OTHER            -> Failed("Expecting value")

\* json.decoder.JSONObject: the members after "{" (or after a ","), token i
\* on; kvs are the items read so far.
ParseMembers(toks, i, kvs) ==
    IF i > Len(toks) \/ toks[i] \notin StrTokens
    THEN Failed("Expecting property name enclosed in double quotes")
    ELSE IF i + 1 > Len(toks) \/ toks[i + 1] # ":"
    THEN Failed("Expecting ':' delimiter")
    ELSE The({ IF ~v.ok THEN v
               ELSE The({ AfterMember(toks, v.next, acc) :
                             acc \in {DictPut(kvs, toks[i], v.val)} }) :
               v \in {ParseValue(toks, i + 2)} })

\* After a member's value: "}" ends the object, "," announces a member.
AfterMember(toks, n, acc) ==
    IF n > Len(toks) THEN Failed("Expecting ',' delimiter")
    ELSE IF toks[n] = "}" THEN Ok(PyDict(acc), n + 1)
    ELSE IF toks[n] = "," THEN ParseMembers(toks, n + 1, acc)
    ELSE Failed("Expecting ',' delimiter")

\* json.decoder.JSONArray: the elements after "[" (or after a ","), token i
\* on; xs are the elements read so far.
ParseElements(toks, i, xs) ==
    The({ IF ~v.ok THEN v
          ELSE The({ AfterElement(toks, v.next, acc) :
                        acc \in {Append(xs, v.val)} }) :
          v \in {ParseValue(toks, i)} })

\* After an element: "]" ends the array, "," announces an element.
AfterElement(toks, n, acc) ==
    IF n > Len(toks) THEN Failed("Expecting ',' delimiter")
    ELSE IF toks[n] = "]" THEN Ok(PyList(acc), n + 1)
    ELSE IF toks[n] = "," THEN ParseElements(toks, n + 1, acc)
    ELSE Failed("Expecting ',' delimiter")

\* json.loads: one value, then the end of the text.
json_loads(toks) ==
    The({ IF ~v.ok THEN v
          ELSE IF v.next # Len(toks) + 1 THEN Failed("Extra data")
          ELSE v :
          v \in {ParseValue(toks, 1)} })

\* A float json.dumps(allow_nan=False) refuses occurs in the value.
RECURSIVE HasNonFinite(_)
HasNonFinite(v) ==
    CASE v.t = "float" -> v.s \in {"inf", "nan"}
      [] v.t = "list"  -> \E i \in 1..Len(v.c) : HasNonFinite(v.c[i])
      [] v.t = "dict"  -> \E i \in 1..Len(v.c) : HasNonFinite(v.c[i][2])
      [] OTHER         -> FALSE

\* json.dumps as JSONResponse.render calls it, for values it accepts.
RECURSIVE json_dumps(_), DumpItems(_, _), DumpElements(_, _)
json_dumps(v) ==
    CASE v.t = "dict" -> <<"{">> \o DumpItems(v.c, 1) \o <<"}">>
      [] v.t = "list" -> <<"[">> \o DumpElements(v.c, 1) \o <<"]">>
      [] OTHER        -> <<v.s>>

DumpItems(kvs, i) ==
    IF i > Len(kvs) THEN <<>>
    ELSE <<kvs[i][1], ":">> \o json_dumps(kvs[i][2])
         \o (IF i < Len(kvs) THEN <<",">> ELSE <<>>) \o DumpItems(kvs, i + 1)

DumpElements(xs, i) ==
    IF i > Len(xs) THEN <<>>
    ELSE json_dumps(xs[i])
         \o (IF i < Len(xs) THEN <<",">> ELSE <<>>) \o DumpElements(xs, i + 1)

\* ------------------------------------------------------------------ state
VARIABLES
    env,      \* value of GEMINI_API_KEY: "unset", "" or a key
    lax,      \* TRUE when the installed pydantic coerces numbers to str
    phase,    \* "boot" (module being imported), "serving", "crashed"
    handles,  \* GenerativeModel handles constructed so far
    pc,       \* per request: its position in the handler
    body,     \* per request: the JSON body the client sent
    request,  \* per request: the validated AnalysisRequest
    prompt,   \* per request: the handler's local `prompt`
    sent,     \* per request: the prompts the provider received, in order
    reply,    \* per request: the provider's answer to its call
    parsed,   \* per request: the handler's local `parsed_response`
    resp,     \* per request: the HTTP response
    health    \* the answer to the latest GET /

vars == <<env, lax, phase, handles, pc, body, request, prompt, sent, reply, parsed,
          resp, health>>

Requests == 1..NumRequests

NoBody     == [unstructured_text |-> Missing, context |-> Missing]
NoRequest  == [unstructured_text |-> <<>>, context |-> <<>>]
NoReply    == [kind |-> "none", text |-> <<>>, err |-> ""]
NoResponse == [status |-> 0, body |-> <<>>, detailKind |-> "none", detail |-> <<>>]
NoAnswer   == [status |-> ""]
NoHealth   == [probed |-> FALSE, status |-> 0, body |-> NoAnswer]

Returned(text) == [kind |-> "text",  text |-> text, err |-> ""]
Raised(e)      == [kind |-> "raise", text |-> <<>>, err |-> e]

Terminal == {"Success", "Error"}

\* ---------------------------------------------------------------- start-up
\* Variant: `if api_key is None`, which lets the empty string through.
KeyMissingNoneOnly(k) == k = "unset"

\* `if not api_key` (l. 18): None and the empty string are both falsy.
KeyMissing(k) == k \in {"unset", ""}

Init ==
    /\ env \in {"unset", "", "secret"}
    /\ lax \in BOOLEAN
    /\ phase = "boot"
    /\ handles = 0
    /\ pc = [r \in Requests |-> "Idle"]
    /\ body = [r \in Requests |-> NoBody]
    /\ request = [r \in Requests |-> NoRequest]
    /\ prompt = [r \in Requests |-> <<>>]
    /\ sent = [r \in Requests |-> <<>>]
    /\ reply = [r \in Requests |-> NoReply]
    /\ parsed = [r \in Requests |-> NoValue]
    /\ resp = [r \in Requests |-> NoResponse]
    /\ health = NoHealth

\* Import of the module (l. 10-30): without a key the ValueError ends the
\* process before the routes of l. 58 and l. 94 are registered; with one the
\* provider is configured and the single model handle is built.
Startup ==
    /\ phase = "boot"
    /\ IF KeyMissing(env)
       THEN phase' = "crashed" /\ handles' = handles
       ELSE phase' = "serving" /\ handles' = handles + 1
    /\ UNCHANGED <<env, lax, pc, body, request, prompt, sent, reply, parsed, resp, health>>

\* ------------------------------------------------------------ POST /analyze
\* A request sent to the process that died at start-up gets no HTTP response.
Refuse(r) ==
    /\ pc[r] = "Idle"
    /\ phase = "crashed"
    /\ pc' = [pc EXCEPT ![r] = "Refused"]
    /\ UNCHANGED <<env, lax, phase, handles, body, request, prompt, sent, reply,
                   parsed, resp, health>>

\* FastAPI's answer to a body that AnalysisRequest rejects: 422 with a list
\* of validation errors; the handler is not entered.
ValidationErrorResponse ==
    [status |-> 422, body |-> <<>>, detailKind |-> "list",
     detail |-> <<"value is not a valid string">>]

Reject(r, bodies) ==
    /\ pc[r] = "Idle"
    /\ phase = "serving"
    /\ \E b \in bodies :
          /\ ~ValidateRequest(b, lax)
          /\ body' = [body EXCEPT ![r] = b]
    /\ pc' = [pc EXCEPT ![r] = "Rejected"]
    /\ resp' = [resp EXCEPT ![r] = ValidationErrorResponse]
    /\ UNCHANGED <<env, lax, phase, handles, request, prompt, sent, reply,
                   parsed, health>>

\* The body validates: the handler is entered with the model instance.
Accept(r, bodies) ==
    /\ pc[r] = "Idle"
    /\ phase = "serving"
    /\ \E b \in bodies :
          /\ ValidateRequest(b, lax)
          /\ body' = [body EXCEPT ![r] = b]
          /\ request' = [request EXCEPT ![r] = AnalysisRequest(b)]
    /\ pc' = [pc EXCEPT ![r] = "Start"]
    /\ UNCHANGED <<env, lax, phase, handles, prompt, sent, reply, parsed,
                   resp, health>>

\* l. 65-76
MakePrompt(r) ==
    /\ pc[r] = "Start"
    /\ pc' = [pc EXCEPT ![r] = "PromptBuilt"]
    /\ prompt' = [prompt EXCEPT ![r] = BuildPrompt(request[r])]
    /\ UNCHANGED <<env, lax, phase, handles, body, request, sent, reply, parsed,
                   resp, health>>

\* l. 79-82: the call is issued and the coroutine suspends on the await.
InvokeModel(r) ==
    /\ pc[r] = "PromptBuilt"
    /\ pc' = [pc EXCEPT ![r] = "ModelInvoked"]
    /\ sent' = [sent EXCEPT ![r] = Append(sent[r], prompt[r])]
    /\ UNCHANGED <<env, lax, phase, handles, body, request, prompt, reply, parsed,
                   resp, health>>

\* The provider answers the call of request r with one of `texts` ...
ProviderReturn(r, texts) ==
    /\ pc[r] = "ModelInvoked"
    /\ reply[r].kind = "none"
    /\ \E text \in texts : reply' = [reply EXCEPT ![r] = Returned(text)]
    /\ UNCHANGED <<env, lax, phase, handles, pc, body, request, prompt, sent,
                   parsed, resp, health>>

\* ... or the call fails with an exception whose str() is one of `errors`.
ProviderRaise(r, errors) ==
    /\ pc[r] = "ModelInvoked"
    /\ reply[r].kind = "none"
    /\ \E e \in errors : reply' = [reply EXCEPT ![r] = Raised(e)]
    /\ UNCHANGED <<env, lax, phase, handles, pc, body, request, prompt, sent,
                   parsed, resp, health>>

\* Variant: HTTPException(status_code=500) without the detail argument.
ErrorResponseNoDetail(e) ==
    [status |-> 500, body |-> <<>>, detailKind |-> "string",
     detail |-> <<"Internal Server Error">>]

\* l. 89-91: HTTPException(500, detail=f"An internal error occurred: {e}")
ErrorPrefix == "An internal error occurred: "

ErrorResponse(e) ==
    [status |-> 500, body |-> <<>>, detailKind |-> "string",
     detail |-> <<ErrorPrefix, e>>]

\* l. 87: JSONResponse(content=parsed_response, status_code=200); the
\* constructor renders the body, and raises ValueError on a non-finite float.
RenderError == "Out of range float values are not JSON compliant"

\* Variant: json.dumps with its default allow_nan=True.
CanRenderAllowNan(v) == TRUE

CanRender(v) == ~HasNonFinite(v)

SuccessResponse(v) ==
    [status |-> 200, body |-> json_dumps(v), detailKind |-> "none",
     detail |-> <<>>]

\* Variant: the except clause asks the provider again.
RetryProviderError(r) ==
    /\ pc[r] = "ModelInvoked"
    /\ reply[r].kind = "raise"
    /\ pc' = [pc EXCEPT ![r] = "PromptBuilt"]
    /\ reply' = [reply EXCEPT ![r] = NoReply]
    /\ UNCHANGED <<env, lax, phase, handles, body, request, prompt, sent,
                   parsed, resp, health>>

\* The await raises: the except clause answers 500.
CatchProviderError(r) ==
    /\ pc[r] = "ModelInvoked"
    /\ reply[r].kind = "raise"
    /\ pc' = [pc EXCEPT ![r] = "Error"]
    /\ resp' = [resp EXCEPT ![r] = ErrorResponse(reply[r].err)]
    /\ UNCHANGED <<env, lax, phase, handles, body, request, prompt, sent, reply,
                   parsed, health>>

\* Variant: the response is kept in a module-level variable, so the handler
\* parses whichever text arrived last, its own or another request's.
ParseOutputShared(r) ==
    /\ pc[r] = "ModelInvoked"
    /\ reply[r].kind = "text"
    /\ \E q \in Requests :
          /\ reply[q].kind = "text"
          /\ LET got == json_loads(reply[q].text) IN
             IF got.ok
             THEN /\ pc' = [pc EXCEPT ![r] = "Parsed"]
                  /\ parsed' = [parsed EXCEPT ![r] = got.val]
                  /\ resp' = resp
             ELSE /\ pc' = [pc EXCEPT ![r] = "Error"]
                  /\ parsed' = parsed
                  /\ resp' = [resp EXCEPT ![r] = ErrorResponse(got.err)]
    /\ UNCHANGED <<env, lax, phase, handles, body, request, prompt, sent, reply, health>>

\* Variant: unparseable output makes the handler ask the provider again.
ParseOutputReask(r) ==
    /\ pc[r] = "ModelInvoked"
    /\ reply[r].kind = "text"
    /\ LET got == json_loads(reply[r].text) IN
       IF got.ok
       THEN /\ pc' = [pc EXCEPT ![r] = "Parsed"]
            /\ parsed' = [parsed EXCEPT ![r] = got.val]
            /\ reply' = reply
       ELSE /\ pc' = [pc EXCEPT ![r] = "PromptBuilt"]
            /\ parsed' = parsed
            /\ reply' = [reply EXCEPT ![r] = NoReply]
    /\ UNCHANGED <<env, lax, phase, handles, body, request, prompt, sent, resp, health>>

\* l. 85: json.loads(response.text); a JSONDecodeError goes to the except clause.
ParseOutput(r) ==
    /\ pc[r] = "ModelInvoked"
    /\ reply[r].kind = "text"
    /\ LET got == json_loads(reply[r].text) IN
       IF got.ok
       THEN /\ pc' = [pc EXCEPT ![r] = "Parsed"]
            /\ parsed' = [parsed EXCEPT ![r] = got.val]
            /\ resp' = resp
       ELSE /\ pc' = [pc EXCEPT ![r] = "Error"]
            /\ parsed' = parsed
            /\ resp' = [resp EXCEPT ![r] = ErrorResponse(got.err)]
    /\ UNCHANGED <<env, lax, phase, handles, body, request, prompt, sent, reply, health>>

\* l. 87 and, when rendering raises, l. 89-91.
Respond(r) ==
    /\ pc[r] = "Parsed"
    /\ IF CanRender(parsed[r])
       THEN /\ pc' = [pc EXCEPT ![r] = "Success"]
            /\ resp' = [resp EXCEPT ![r] = SuccessResponse(parsed[r])]
       ELSE /\ pc' = [pc EXCEPT ![r] = "Error"]
            /\ resp' = [resp EXCEPT ![r] = ErrorResponse(RenderError)]
    /\ UNCHANGED <<env, lax, phase, handles, body, request, prompt, sent, reply,
                   parsed, health>>

\* ------------------------------------------------------------------ GET /
\* Variant: the health check reports on the analysis requests.
read_root_degraded ==
    IF \E r \in DOMAIN pc : pc[r] = "Error"
    THEN [status |-> "Agent is degraded"]
    ELSE [status |-> "Agent is running"]

\* l. 94-96
read_root == [status |-> "Agent is running"]

\* A probe of GET / once start-up is over: answered by read_root when the
\* server is up, and not answered at all when the process died at start-up.
GetRoot ==
    /\ phase # "boot"
    /\ health' = IF phase = "serving"
                 THEN [probed |-> TRUE, status |-> 200, body |-> read_root]
                 ELSE [probed |-> TRUE, status |-> 0, body |-> NoAnswer]
    /\ UNCHANGED <<env, lax, phase, handles, pc, body, request, prompt, sent, reply,
                   parsed, resp>>

\* ------------------------------------------------------------- input sets
\* Chunks a client can put in a string: the separator marker, the two
\* halves of the default context, and an ordinary word.
Chunks == {Separator, DefaultContext[1], DefaultContext[2], "loan"}

Strings == SeqsUpTo(Chunks, MaxLen)

Fields == {Missing, Null, Num5} \cup {Str(s) : s \in Strings}

\* Every body over Fields (PromptSpec).
WideBodies == [unstructured_text : Fields, context : Fields]

\* The bodies of Spec: accepted with and without a context, rejected for a
\* missing text, and a numeric text whose fate depends on pydantic.
Bodies ==
    {[unstructured_text |-> Str(<<"loan">>), context |-> Missing],
     [unstructured_text |-> Str(<<>>),       context |-> Str(<<"loan">>)],
     [unstructured_text |-> Missing,         context |-> Missing],
     [unstructured_text |-> Num5,            context |-> Missing]}

\* The request of the spec's scenario: a text and no context.
OneBody == [unstructured_text |-> Str(<<"loan">>), context |-> Missing]

\* Provider texts.  FullAnswer is the answer of the schema, five fields.
FullAnswer ==
    <<"{", "summary", ":", "loan", ",",
           "key_entities", ":", "[", "loan", "]", ",",
           "sentiment", ":", "loan", ",",
           "recommendations", ":", "[", "loan", ",", "loan", "]", ",",
           "potential_risks", ":", "[", "]", "}">>

PartialAnswer  == <<"{", "summary", ":", "loan", "}">>
RepeatedKey    == <<"{", "summary", ":", "1", ",", "sentiment", ":", "loan", ",",
                         "summary", ":", "loan", "}">>
OverflowAnswer == <<"{", "summary", ":", "loan", ",", "sentiment", ":", "1e999", "}">>
NaNAnswer      == <<"{", "summary", ":", "NaN", "}">>
Truncated      == <<"{", "summary", ":", "loan", ",">>

SampleTexts ==
    {FullAnswer, PartialAnswer, RepeatedKey, OverflowAnswer, NaNAnswer, Truncated}

Texts == {FullAnswer, PartialAnswer, OverflowAnswer, Truncated}

\* What an exhaustively drawn text is made of.
Tokens == {"{", "}", ",", ":", "summary", "1", "1e999", "NaN"}

WideTexts == SeqsUpTo(Tokens, MaxTokens) \cup SampleTexts

\* str() of the exceptions the provider call raises.
ProviderErrors == {"503 Service Unavailable", "429 Resource has been exhausted"}

\* --------------------------------------------------------- specifications
Analyze(r) ==
    \/ Refuse(r)
    \/ Reject(r, Bodies)
    \/ Accept(r, Bodies)
    \/ MakePrompt(r)
    \/ InvokeModel(r)
    \/ ProviderReturn(r, Texts)
    \/ ProviderRaise(r, ProviderErrors)
    \/ CatchProviderError(r)
    \/ ParseOutput(r)
    \/ Respond(r)

Next ==
    \/ Startup
    \/ GetRoot
    \/ \E r \in Requests : Analyze(r)

Spec == Init /\ [][Next]_vars

\* One request, every body over Fields, up to the call of the provider.
NextPrompt ==
    \/ Startup
    \/ Reject(1, WideBodies)
    \/ Accept(1, WideBodies)
    \/ MakePrompt(1)
    \/ InvokeModel(1)

PromptSpec == Init /\ [][NextPrompt]_vars

\* One request, every provider text over Tokens, from the call to the response.
NextJson ==
    \/ Startup
    \/ Accept(1, {OneBody})
    \/ MakePrompt(1)
    \/ InvokeModel(1)
    \/ ProviderReturn(1, WideTexts)
    \/ ProviderRaise(1, ProviderErrors)
    \/ CatchProviderError(1)
    \/ ParseOutput(1)
    \/ Respond(1)

JsonSpec == Init /\ [][NextJson]_vars

\* The steps of the handler coroutine of request r: the event loop runs a
\* coroutine that is ready, so each is weakly fair.  The provider's answer
\* is not: the call of l. 79 carries no timeout.
HandlerFairness(r) ==
    /\ WF_vars(MakePrompt(r))
    /\ WF_vars(InvokeModel(r))
    /\ WF_vars(CatchProviderError(r))
    /\ WF_vars(ParseOutput(r))
    /\ WF_vars(Respond(r))

\* The requests of FairSpec: one body, and one provider answer of each kind.
AnalyzeFair(r) ==
    \/ Accept(r, {OneBody})
    \/ MakePrompt(r)
    \/ InvokeModel(r)
    \/ ProviderReturn(r, {PartialAnswer, OverflowAnswer, Truncated})
    \/ ProviderRaise(r, {"503 Service Unavailable"})
    \/ CatchProviderError(r)
    \/ ParseOutput(r)
    \/ Respond(r)

NextFair ==
    \/ Startup
    \/ \E r \in Requests : AnalyzeFair(r)

FairSpec ==
    Init /\ [][NextFair]_vars /\ \A r \in Requests : HandlerFairness(r)

\* ================================================================= claims
\* JSON as RFC 8259 defines it, over the same tokens: the index after the
\* value that starts at token i, or 0 when no value starts there.
RECURSIVE RfcValue(_, _), RfcMembers(_, _), RfcElements(_, _)
RfcValue(toks, i) ==
    IF i > Len(toks) THEN 0
    ELSE IF toks[i] \in StrTokens \cup {"1", "1e999"} THEN i + 1
    ELSE IF toks[i] = "{" THEN
         (IF i + 1 <= Len(toks) /\ toks[i + 1] = "}" THEN i + 2
          ELSE RfcMembers(toks, i + 1))
    ELSE IF toks[i] = "[" THEN
         (IF i + 1 <= Len(toks) /\ toks[i + 1] = "]" THEN i + 2
          ELSE RfcElements(toks, i + 1))
    ELSE 0

RfcMembers(toks, i) ==
    IF i + 1 > Len(toks) \/ toks[i] \notin StrTokens \/ toks[i + 1] # ":" THEN 0
    ELSE LET n == RfcValue(toks, i + 2) IN
         IF n = 0 \/ n > Len(toks) THEN 0
         ELSE IF toks[n] = "}" THEN n + 1
         ELSE IF toks[n] = "," THEN RfcMembers(toks, n + 1)
         ELSE 0

RfcElements(toks, i) ==
    LET n == RfcValue(toks, i) IN
    IF n = 0 \/ n > Len(toks) THEN 0
    ELSE IF toks[n] = "]" THEN n + 1
    ELSE IF toks[n] = "," THEN RfcElements(toks, n + 1)
    ELSE 0

IsValidJSON(toks) == RfcValue(toks, 1) = Len(toks) + 1

IsValidJSONObject(toks) == IsValidJSON(toks) /\ toks[1] = "{"

\* The keys of a parsed object.
KeysOf(v) == {v.c[i][1] : i \in 1..Len(v.c)}

\* Request r has been answered by its handler.
Answered(r) == pc[r] \in Terminal

\* The body of the response of r is the object the provider's text denotes.
ForwardsObject(r) ==
    /\ pc[r] = "Success"
    /\ resp[r].status = 200
    /\ resp[r].detailKind = "none"
    /\ LET sentBack == json_loads(resp[r].body)
           given    == json_loads(reply[r].text)
       IN sentBack.ok /\ given.ok /\ sentBack.val = given.val

\* C1: whenever the provider returns a syntactically valid JSON object, with
\* or without the five schema fields, the request is answered 200 with
\* exactly that object as the body.
C1_ValidObjectForwarded ==
    \A r \in Requests :
        (Answered(r) /\ reply[r].kind = "text" /\ IsValidJSONObject(reply[r].text))
            => ForwardsObject(r)

\* What the handler does with a valid JSON object: it is forwarded with 200
\* unless one of its numbers exceeds the double range, and then the answer
\* is 500; the schema's fields play no part.
ObjectForwardedUnlessOverflow ==
    \A r \in Requests :
        (Answered(r) /\ reply[r].kind = "text" /\ IsValidJSONObject(reply[r].text))
            => IF "1e999" \in Range(reply[r].text)
               THEN pc[r] = "Error" /\ resp[r].status = 500
               ELSE ForwardsObject(r)

\* An object lacking four of the five schema fields was forwarded.
PartialObjectForwarded ==
    /\ pc[1] = "Success"
    /\ reply[1] = Returned(PartialAnswer)
    /\ ~(SchemaRequired \subseteq KeysOf(parsed[1]))
    /\ resp[1].status = 200

\* The one failure shape: 500, no content, a string detail made of the
\* generic prefix and the error's text.
IsUniformError(response) ==
    /\ response.status = 500
    /\ response.body = <<>>
    /\ response.detailKind = "string"
    /\ Len(response.detail) = 2
    /\ response.detail[1] = ErrorPrefix

\* C2: when the provider call raises, or returns text that is not valid
\* JSON, the request ends in Error with the uniform 500 response, whose
\* detail is the generic prefix followed by the text of the error (the one
\* raised by the call, by the decoder, or by the encoder for a text only
\* Python's decoder accepts); nothing else is returned.
C2_FailureIsUniform500 ==
    \A r \in Requests :
        /\ (Answered(r) /\ reply[r].kind = "raise")
              => /\ pc[r] = "Error"
                 /\ IsUniformError(resp[r])
                 /\ resp[r].detail[2] = reply[r].err
        /\ (Answered(r) /\ reply[r].kind = "text" /\ ~IsValidJSON(reply[r].text))
              => /\ pc[r] = "Error"
                 /\ IsUniformError(resp[r])
                 /\ LET got == json_loads(reply[r].text) IN
                    resp[r].detail[2] = (IF got.ok THEN RenderError ELSE got.err)
        /\ (reply[r].kind = "text" /\ ~IsValidJSON(reply[r].text))
              => pc[r] # "Success"

\* C2 witness: a text cut off in the middle was answered 500.
C2_Witness ==
    /\ pc[1] = "Error"
    /\ reply[1] = Returned(Truncated)
    /\ resp[1].status = 500

\* C3: no request calls the provider more than once, and a request whose
\* call has been answered (a text or an exception) is at the call or past
\* it, never before it again.
C3_AtMostOneCall ==
    \A r \in Requests :
        /\ Len(sent[r]) <= 1
        /\ reply[r].kind # "none"
              => /\ Len(sent[r]) = 1
                 /\ pc[r] \in {"ModelInvoked", "Parsed", "Success", "Error"}
        /\ pc[r] = "Error" => Len(sent[r]) = 1

\* C3 witness: a request failed after its single call raised.
C3_Witness ==
    \E r \in Requests :
        pc[r] = "Error" /\ reply[r].kind = "raise" /\ Len(sent[r]) = 1

\* C4 as stated: every failed request, a rejected body included, is
\* answered 500 with a string detail.
C4_EveryFailureIs500 ==
    \A r \in Requests :
        resp[r].status \notin {0, 200}
            => resp[r].status = 500 /\ resp[r].detailKind = "string"

\* C4 amended: a failure inside the handler (provider call, parse, render)
\* is answered with the uniform 500 response; a body the request model
\* rejects is answered 422 with a list of validation errors and never
\* reaches the handler or the provider.
C4_HandlerFailureIs500 ==
    \A r \in Requests :
        /\ resp[r].status \in {0, 200, 422, 500}
        /\ pc[r] = "Error" => IsUniformError(resp[r])
        /\ resp[r].status = 500 => pc[r] = "Error"
        /\ pc[r] = "Rejected"
              => /\ resp[r].status = 422
                 /\ resp[r].detailKind = "list"
                 /\ sent[r] = <<>>
        /\ resp[r].status = 422
              => /\ pc[r] = "Rejected"
                 /\ ~ValidateRequest(body[r], lax)

\* C4 witness: one request was rejected by validation (text missing) and
\* another failed in the handler while rendering.
C4_Witness ==
    \E r, q \in Requests :
        /\ pc[r] = "Rejected" /\ body[r].unstructured_text = Missing
        /\ pc[q] = "Error" /\ resp[q].detail = <<ErrorPrefix, RenderError>>

\* C5 as stated: every probe of GET / is answered 200 with the status body,
\* also when the API credential is absent.
C5_HealthAlways ==
    health.probed
        => health.status = 200 /\ health.body = [status |-> "Agent is running"]

\* C5 amended: once start-up has succeeded, GET / can be probed in every
\* state and every probe is answered 200 with the status body, whatever the
\* requests and the provider are doing; with the credential absent the
\* process is not running and a probe gets no answer.
C5_HealthWhileServing ==
    /\ phase = "serving" => ENABLED GetRoot
    /\ (health.probed /\ phase = "serving")
          => health.status = 200 /\ health.body = [status |-> "Agent is running"]
    /\ (health.probed /\ phase = "crashed") => health.status = 0

\* C5 witness: the probe was answered while one request had failed and
\* another was waiting for a provider that has not answered.
C5_Witness ==
    /\ health.status = 200
    /\ \E r, q \in Requests :
          /\ pc[r] = "Error"
          /\ pc[q] = "ModelInvoked" /\ reply[q].kind = "none"

\* C6: with GEMINI_API_KEY unset or empty the process never serves: no
\* request is handled, no probe answered, the provider never called, no
\* handle built; with a key, start-up ends serving with exactly one handle.
C6_StartupGate ==
    /\ env \in {"unset", ""}
          => /\ phase # "serving"
             /\ handles = 0
             /\ health.status = 0
             /\ \A r \in Requests :
                   /\ pc[r] \in {"Idle", "Refused"}
                   /\ sent[r] = <<>>
                   /\ resp[r] = NoResponse
    /\ env \notin {"unset", ""}
          => /\ phase \in {"boot", "serving"}
             /\ handles = (IF phase = "serving" THEN 1 ELSE 0)
    /\ (\E r \in Requests : pc[r] \notin {"Idle", "Refused"}) => handles = 1

\* C6 witness: the key is the empty string, the process died, and a request
\* and a probe went unanswered.
C6_Witness ==
    /\ env = ""
    /\ phase = "crashed"
    /\ health.probed
    /\ \E r \in Requests : pc[r] = "Refused"

\* The context and the text of request r as the handler reads them (the
\* string the client supplied; a number is read in its decimal form).
SuppliedContext(r) == body[r].context.s
SuppliedText(r)    == body[r].unstructured_text.s

\* The context slot of a sent prompt holds exactly ctx: it follows the
\* opening of the prompt and is followed by the closing quote.
ContextSlotHolds(p, ctx) ==
    /\ OccursAt(PromptHead, p, 1)
    /\ OccursAt(ctx, p, Len(PromptHead) + 1)
    /\ OccursAt(PromptMiddle, p, Len(PromptHead) + Len(ctx) + 1)

\* C7 as stated: the prompt of a request without context contains the
\* default domain string; the prompt of a request with a context holds
\* exactly that string in the context slot, and does not contain the
\* default unless the supplied context contains it.
C7_DefaultOnlyFromContext ==
    \A r \in Requests :
        sent[r] # <<>> =>
            LET p == sent[r][1] IN
            IF body[r].context.k = "missing"
            THEN Contains(p, DefaultContext)
            ELSE /\ ContextSlotHolds(p, SuppliedContext(r))
                 /\ Contains(p, DefaultContext)
                       => Contains(SuppliedContext(r), DefaultContext)

\* C7 amended: the prompt of a request without context contains the
\* default domain string; the prompt of a request with a
\* context holds exactly that string in the slot, and contains the default
\* only if the supplied context or the unstructured_text contains it.
C7_ContextInPrompt ==
    \A r \in Requests :
        sent[r] # <<>> =>
            LET p == sent[r][1] IN
            IF body[r].context.k = "missing"
            THEN Contains(p, DefaultContext)
            ELSE /\ ContextSlotHolds(p, SuppliedContext(r))
                 /\ Contains(p, DefaultContext)
                       => \/ Contains(SuppliedContext(r), DefaultContext)
                          \/ Contains(SuppliedText(r), DefaultContext)

\* C7 witness: a prompt was sent for a request whose context is supplied
\* and free of the default, while its text spells the default out.
C7_Witness ==
    /\ sent[1] # <<>>
    /\ body[1].context.k = "str"
    /\ ~Contains(SuppliedContext(1), DefaultContext)
    /\ SuppliedText(1) = DefaultContext
    /\ Contains(sent[1][1], DefaultContext)

\* Indices of the first and of the last separator marker of a prompt.
FirstSeparator(p) == CHOOSE i \in 1..Len(p) :
    p[i] = Separator /\ \A j \in 1..(i - 1) : p[j] # Separator
LastSeparator(p) == CHOOSE i \in 1..Len(p) :
    p[i] = Separator /\ \A j \in (i + 1)..Len(p) : p[j] # Separator

\* C8: every prompt sent holds the unstructured_text, chunk for chunk as
\* the client supplied it, after the first separator marker of the prompt
\* and before the last one, whatever the text is (empty, or holding the
\* marker itself).
C8_TextVerbatimBetweenMarkers ==
    \A r \in Requests :
        sent[r] # <<>> =>
            LET p == sent[r][1]
                t == SuppliedText(r)
            IN /\ Separator \in Range(p)
               /\ \E i \in 1..(Len(p) + 1) :
                     /\ OccursAt(t, p, i)
                     /\ FirstSeparator(p) < i
                     /\ i + Len(t) - 1 < LastSeparator(p)
               /\ Len(p) = Len(PromptHead) + Len(request[r].context)
                             + Len(PromptMiddle) + Len(t) + Len(PromptTail)

\* C8 witness: a prompt was sent for a text that holds the marker itself.
C8_Witness ==
    /\ sent[1] # <<>>
    /\ Separator \in Range(SuppliedText(1))
    /\ Len(SuppliedText(1)) = MaxLen

\* What the handler answers, as a function of the provider's answer alone.
OutcomeOf(answer) ==
    IF answer.kind = "raise" THEN ErrorResponse(answer.err)
    ELSE LET got == json_loads(answer.text) IN
         IF ~got.ok THEN ErrorResponse(got.err)
         ELSE IF CanRender(got.val) THEN SuccessResponse(got.val)
         ELSE ErrorResponse(RenderError)

Suspended(r) == pc[r] = "ModelInvoked" /\ reply[r].kind = "none"

\* C9: requests are isolated and the wait is non-blocking: the prompt sent
\* for a request is built from its own body, its response is determined by
\* the provider's answer to its own call, and while a request is suspended
\* on the provider every other request can take its next step (be received,
\* build its prompt, call the provider, parse, respond) and GET / can be
\* answered.
C9_RequestsIsolated ==
    \A r \in Requests :
        /\ sent[r] # <<>> => sent[r] = <<BuildPrompt(AnalysisRequest(body[r]))>>
        /\ Answered(r) => resp[r] = OutcomeOf(reply[r])
        /\ ~Answered(r) /\ pc[r] # "Rejected" => resp[r] = NoResponse
        /\ Suspended(r) =>
              /\ ENABLED GetRoot
              /\ \A q \in Requests \ {r} :
                    /\ pc[q] = "Idle" => ENABLED Accept(q, Bodies)
                    /\ pc[q] = "Start" => ENABLED MakePrompt(q)
                    /\ pc[q] = "PromptBuilt" => ENABLED InvokeModel(q)
                    /\ (pc[q] = "ModelInvoked" /\ reply[q].kind = "text")
                          => ENABLED ParseOutput(q)
                    /\ (pc[q] = "ModelInvoked" /\ reply[q].kind = "raise")
                          => ENABLED CatchProviderError(q)
                    /\ pc[q] = "Parsed" => ENABLED Respond(q)

\* C9 witness: one request is still suspended on the provider while
\* another, given a different answer, has completed with 200, and a third
\* party's probe of GET / has been answered.
C9_Witness ==
    \E r, q \in Requests :
        /\ Suspended(r)
        /\ pc[q] = "Success" /\ resp[q].status = 200
        /\ body[q] # body[r]
        /\ health.status = 200

\* Order of a request's positions: not yet sent; turned away before the
\* handler (no server, or a rejected body) or entering it; then the
\* handler's steps.
Rank(p) ==
    CASE p \in {"Start", "Refused", "Rejected"} -> 1
      [] p = "PromptBuilt"  -> 2
      [] p = "ModelInvoked" -> 3
      [] p = "Parsed"       -> 4
      [] p \in Terminal     -> 5
      [] OTHER              -> 0

\* C10 as stated: every request that enters the handler eventually reaches
\* Success or Error.
C10_AlwaysTerminates ==
    \A r \in Requests : (pc[r] = "Start") ~> (pc[r] \in Terminal)

\* C10 amended: a request moves only forwards through Start, PromptBuilt,
\* ModelInvoked, Parsed and the outcomes Success and Error, so it visits
\* each at most once; from Success or Error it takes no further step; it
\* always reaches the call of the provider, and it reaches Success or Error
\* once the provider has answered the call (the call has no timeout: without
\* an answer the request stays at ModelInvoked).
C10_OneShot ==
    /\ [][\A r \in Requests :
            /\ pc'[r] # pc[r] => Rank(pc[r]) < Rank(pc'[r])
            /\ pc[r] \in Terminal
                  => /\ pc'[r] = pc[r]
                     /\ resp'[r] = resp[r]
                     /\ sent'[r] = sent[r]
                     /\ reply'[r] = reply[r]]_vars
    /\ \A r \in Requests : (pc[r] = "Start") ~> (pc[r] = "ModelInvoked")
    /\ \A r \in Requests : (reply[r].kind # "none") ~> (pc[r] \in Terminal)

\* C10 witness: one request ended in Success and another in Error.
C10_Witness ==
    \E r, q \in Requests :
        /\ pc[r] = "Success" /\ resp[r].status = 200
        /\ pc[q] = "Error" /\ resp[q].status = 500

====
